---- MODULE Spec2Model ----
(***************************************************************************)
(* Model of src/index.py: the Solana token-holder analysis pipeline.       *)
(*   validate_top_n / validate_token_address, SolanaTokenAnalyzer          *)
(*   (get_top_holders, get_token_details, get_transactions,                *)
(*    analyze_holder, get_other_tokens, get_first_activity_date, analyze), *)
(*   summarize_results and main(request, store).                           *)
(* The program is single-threaded; the only interleaving points are the    *)
(* upstream requests, so each action is one request together with all the  *)
(* local code that runs up to the next request.                            *)
(***************************************************************************)
EXTENDS Integers, Sequences, FiniteSets, TLC

VARIABLES
    TOP_N,          \* module-level configuration (index.py:16-27)
    request,        \* main's request argument
    store,          \* main's store argument (key -> summary)
    store0,         \* the store as it was when main was called
    pc,             \* position of the single thread of control
    top_holders,    \* analyze: top_holders
    token,          \* analyze: token
    analysis,       \* analyze: analysis
    holder_idx,     \* analyze: position of the for loop over top_holders
    transactions,   \* get_transactions: transactions (then analyze's local)
    page,           \* get_transactions: params["page"]
    holder_details, \* analyze: holder_details
    other_data,     \* get_other_tokens: data
    tokens,         \* get_other_tokens: tokens
    results,        \* main: results
    requests,       \* every upstream request issued so far, in order
    returned,       \* <<v>> once main has returned v, <<>> before
    raised          \* name of the exception main raised, "" if none

vars == <<TOP_N, request, store, store0, pc, top_holders, token, analysis,
          holder_idx, transactions, page, holder_details, other_data,
          tokens, results, requests, returned, raised>>

-----------------------------------------------------------------------------
(* Bounds of the model.                                                    *)

MaxHolders == 10        \* most items the holder listing returns
MaxClassifyTx == 120    \* longest list given to analyze_holder on its own
MaxTopN == 41           \* largest configured TOP_N tried

(* Program constants.                                                      *)

PageSize == 40          \* params["page_size"] of get_transactions
TxCap == 100            \* len(transactions) >= 100 stops the paging
CountCap == 100         \* format_count: count >= 100
AddressLen == 44        \* validate_token_address

ValidTopN == {10, 20, 30, 40}

-----------------------------------------------------------------------------
(* Python values that can be of several types are tagged by their type.    *)

PyNone == [none |-> TRUE]
PyStr(s) == [str |-> s]
PyInt(n) == [int |-> n]
PyList(l) == [list |-> l]

IsStr(v) == DOMAIN v = {"str"}

\* bool(v)
Truthy(v) ==
    IF DOMAIN v = {"none"} THEN FALSE
    ELSE IF DOMAIN v = {"str"} THEN Len(v.str) # 0
    ELSE IF DOMAIN v = {"int"} THEN v.int # 0
    ELSE Len(v.list) # 0

None == <<>>            \* an optional value: <<>> is None, <<x>> is x
Some(x) == <<x>>

-----------------------------------------------------------------------------
(* Validation.  The result is the exception raised, "" when none is.       *)

validate_top_n(top_n) ==
    IF top_n \notin ValidTopN THEN "ValueError" ELSE ""

\* a length check that lets a longer address through
validate_token_address_min(token_address) ==
    IF ~Truthy(token_address) THEN "ValueError"
    ELSE IF ~IsStr(token_address) THEN "ValueError"
    ELSE IF Len(token_address.str) < AddressLen THEN "ValueError"
    ELSE ""

validate_token_address(token_address) ==
    IF ~Truthy(token_address) THEN "ValueError"
    ELSE IF ~IsStr(token_address) THEN "ValueError"
    ELSE IF Len(token_address.str) # AddressLen THEN "ValueError"
    ELSE ""

-----------------------------------------------------------------------------
(* The upstream analytics API, as the inputs of the run.  A response is a  *)
(* status and, on success, the "data" of its JSON body.  What the API      *)
(* holds is fixed per wallet; which wallets it lists, and whether a        *)
(* request succeeds, is chosen at each request.                            *)

Statuses == {200, 404, 500, 600}

\* a status check that lets server errors through
raise_for_status_4xx(status) ==
    IF status >= 400 /\ status < 500 THEN "HTTPError" ELSE ""

\* response.raise_for_status(): 400 <= status < 600 raises HTTPError
raise_for_status(status) ==
    IF status >= 400 /\ status < 600 THEN "HTTPError" ELSE ""

WalletAddress(i) == 1000 + i
WalletOf(address) == address - 1000

\* item i of the holder listing: the holder ranked i
HolderItem(i) ==
    [address |-> WalletAddress(i), amount |-> 5000 - i, rank |-> i,
     owner |-> 7000 + i]

\* Balance-change histories, newest first, as the page sizes the API
\* returns for pages 1, 2, ... and the number of records of each page that
\* are not "inc" (they close the page).  Past the last page the API returns
\* an empty page.
P(n, out) == [n |-> n, out |-> out]
Histories ==
    << << >>,
       << P(10, 1) >>,
       << P(40, 0), P(40, 0), P(40, 0), P(15, 0) >>,
       << P(40, 0), P(40, 0), P(19, 0) >>,
       << P(40, 0), P(40, 0), P(20, 0) >>,
       << P(9, 0) >>,
       << P(60, 30), P(40, 10), P(5, 5) >>,
       << P(40, 4), P(39, 3), P(40, 0) >>,
       << P(40, 40), P(40, 0), P(40, 40), P(40, 0) >>,
       << P(11, 1) >> >>

HistoryOf(w) == Histories[((w - 1) % Len(Histories)) + 1]

RECURSIVE SumSizes(_, _)
SumSizes(h, k) == IF k = 0 THEN 0 ELSE SumSizes(h, k - 1) + h[k].n

\* one raw balance-change record: record j of page p of wallet w
RawTx(w, p, j) ==
    LET h == HistoryOf(w)
    IN  [trans_id |-> <<w, p, j>>,
         fee |-> 5,
         amount |-> 10 * j,
         time |-> SumSizes(h, Len(h)) - SumSizes(h, p - 1) - j + 1,
         change_type |-> IF j > h[p].n - h[p].out THEN "dec" ELSE "inc",
         block_id |-> 900 + p,
         token_decimals |-> 6]

\* the data of GET /account/balance_change, sort_order desc, page p
BalancePage(w, p) ==
    LET h == HistoryOf(w)
    IN  IF p > Len(h) THEN << >> ELSE [j \in 1..h[p].n |-> RawTx(w, p, j)]

\* the data of GET /account/balance_change, sort_order asc (first page)
OldestFirst(w) ==
    LET h == HistoryOf(w)
    IN  IF SumSizes(h, Len(h)) = 0 THEN << >>
        ELSE LET last == CHOOSE p \in 1..Len(h) :
                             /\ h[p].n > 0
                             /\ \A q \in (p + 1)..Len(h) : h[q].n = 0
             IN  [j \in 1..h[last].n |-> RawTx(w, last, h[last].n - j + 1)]

\* the data of GET /account/token-accounts: wallet w holds w % 3 other tokens
TokenAccounts(w) ==
    [j \in 1..(w % 3) |->
        [token_address |-> 2000 + j, amount |-> 100 * j + w,
         token_decimals |-> 6, owner |-> WalletAddress(w)]]

\* the data of GET /token/meta
TokenMeta(address) ==
    [name |-> "name", symbol |-> "SYM", icon |-> "icon", address |-> address,
     price |-> 3, decimals |-> 6, supply |-> 1000000, holder |-> 77]

-----------------------------------------------------------------------------
(* SolanaTokenAnalyzer: the pure parts.                                    *)

\* get_transactions: the projection of one page (the list comprehension)
new_transactions(data) ==
    [j \in 1..Len(data) |->
        [trans_id |-> data[j].trans_id,
         fee |-> data[j].fee,
         amount |-> data[j].amount,
         time |-> data[j].time,
         change_type |-> data[j].change_type]]

\* a cap that is reached only past TxCap
page_loop_breaks_past_cap(data, txs) ==
    Len(data) < PageSize \/ Len(txs) > TxCap

\* a loop that stops on a short page only
page_loop_breaks_short_only(data, txs) == Len(data) < PageSize

\* get_transactions: the break condition, tested after the page is appended
page_loop_breaks(data, txs) == Len(data) < PageSize \/ Len(txs) >= TxCap

\* a / b < c / d for positive b and d: what the float comparison
\* number_of_out_transactions / number_of_transactions < 0.1 decides for
\* list-sized integers (the quotient of two such integers is never rounded
\* across the double nearest to 1/10, and 1/10 itself rounds to it)
RatioLess(a, b, c, d) == a * d < c * b

\* a threshold that counts the ratio 0.1 itself as long-term
determine_holder_type_le(number_of_transactions, number_of_out_transactions) ==
    IF \/ number_of_transactions = 0
       \/ ~RatioLess(1, 10, number_of_out_transactions, number_of_transactions)
    THEN "Long-term holder"
    ELSE "Frequent flipper"

determine_holder_type(number_of_transactions, number_of_out_transactions) ==
    IF \/ number_of_transactions = 0
       \/ RatioLess(number_of_out_transactions, number_of_transactions, 1, 10)
    THEN "Long-term holder"
    ELSE "Frequent flipper"

\* sum(1 for tx in transactions if tx["change_type"] == "inc")
count_inc(txs) ==
    Cardinality({k \in 1..Len(txs) : txs[k].change_type = "inc"})

\* a display cap that starts past CountCap
format_count_gt(count) ==
    IF count > CountCap THEN PyStr("more than 100") ELSE PyInt(count)

format_count(count) ==
    IF count >= CountCap THEN PyStr("more than 100") ELSE PyInt(count)

analyze_holder(txs) ==
    LET number_of_transactions == Len(txs)
        number_of_in_transactions == count_inc(txs)
        number_of_out_transactions ==
            number_of_transactions - number_of_in_transactions
        type_of_holder ==
            determine_holder_type(number_of_transactions,
                                  number_of_out_transactions)
    IN  [number_of_transactions |-> format_count(number_of_transactions),
         number_of_in_transactions |-> format_count(number_of_in_transactions),
         number_of_out_transactions |->
             format_count(number_of_out_transactions),
         type_of_holder |-> type_of_holder]

\* get_token_details: the projection of the metadata
token_details(data) ==
    [name |-> data.name, symbol |-> data.symbol, icon |-> data.icon,
     address |-> data.address, price |-> data.price,
     decimals |-> data.decimals, supply |-> data.supply]

\* get_other_tokens: the entry appended for one token account
other_token(item, details) ==
    details @@ [amount |-> item.amount, token_decimals |-> item.token_decimals]

\* get_first_activity_date: None if len(data) == 0 else data[0]["time"]
first_activity_date(data) ==
    IF Len(data) = 0 THEN None ELSE Some(data[1].time)

\* analyze: the Holder appended for one item of top_holders
holder_entry(holder, txs, details, others, first) ==
    [wallet_address |-> holder.address,
     token_balance |-> holder.amount,
     rank |-> holder.rank,
     first_activity_date |-> first,
     other_tokens |-> others,
     holder_details |-> details,
     transactions |-> txs]

\* summarize_results: the analysis without the transactions
summary_input(res) ==
    [token |-> res.token,
     analysis |->
        [i \in 1..Len(res.analysis) |->
            [wallet_address |-> res.analysis[i].wallet_address,
             token_balance |-> res.analysis[i].token_balance,
             rank |-> res.analysis[i].rank,
             first_activity_date |-> res.analysis[i].first_activity_date,
             other_tokens |-> res.analysis[i].other_tokens,
             holder_details |-> res.analysis[i].holder_details]],
     date |-> res.date]

\* str.strip() on a string held as the sequence of its code points; the
\* characters it removes are those for which str.isspace() is true
Whitespace ==
    {9, 10, 11, 12, 13, 28, 29, 30, 31, 32, 133, 160, 5760}
        \cup (8192..8202) \cup {8232, 8233, 8239, 8287, 12288}
RECURSIVE lstrip(_)
lstrip(s) ==
    IF Len(s) > 0 /\ Head(s) \in Whitespace THEN lstrip(Tail(s)) ELSE s
RECURSIVE rstrip(_)
rstrip(s) ==
    IF Len(s) > 0 /\ s[Len(s)] \in Whitespace
    THEN rstrip(SubSeq(s, 1, Len(s) - 1)) ELSE s
strip(s) == rstrip(lstrip(s))

\* a key that forgets the prefix
cache_key_bare(token_address) == token_address.str

\* main: key = f"analysis-{request['tokenAddress']}"
cache_key(token_address) == "analysis-" \o token_address.str

-----------------------------------------------------------------------------
(* The inputs of main.                                                     *)

A44 == "AAAAAAAAAAAAAAAAAAAAAAAAAAAAAAAAAAAAAAAAAAAA"
B44 == "Hjw6bEcHtbHGpQr8onG3izfJY5DJiWdt7uk2BfdSpump"
A43 == "AAAAAAAAAAAAAAAAAAAAAAAAAAAAAAAAAAAAAAAAAAA"
A45 == "AAAAAAAAAAAAAAAAAAAAAAAAAAAAAAAAAAAAAAAAAAAAA"

\* values tried for request["tokenAddress"]
TokenAddressInputs ==
    << PyStr(A44), PyStr(B44), PyStr(A43), PyStr(A45), PyStr(""), PyNone,
       PyInt(0), PyInt(44), PyList(<< >>), PyList([i \in 1..44 |-> "A"]) >>

\* values tried for TOP_N (an int: int(os.getenv("TOP_N")) or 10)
TopNInputs == (-1)..MaxTopN

\* summaries are strings held as sequences of code points
CachedA == << 32, 111, 108, 100, 65 >>      \* " oldA"
CachedB == << 111, 108, 100, 66, 10 >>      \* "oldB\n"

\* stores tried for main's store argument
StoreInputs ==
    << << >>,
       ("analysis-" \o A44) :> CachedA,
       ("analysis-" \o B44) :> CachedB,
       (("analysis-" \o A44) :> CachedA) @@ (("analysis-" \o B44) :> CachedB),
       ("analysis-" :> CachedA) @@ (A44 :> CachedB)
           @@ (("analysis-" \o A45) :> CachedB) >>

\* what datetime.now().isoformat() may give
Dates == {"2025-01-01T00:00:00", "2025-01-02T00:00:00"}

\* texts a completion may carry
TextSum == << 13, 10, 115, 117, 109, 160, 32 >>     \* "\r\nsum\xa0 "
TextSM == << 115, 32, 109 >>                        \* "s m"

Choice(content) == [message |-> Some([content |-> content])]

\* what client.chat.completions.create may give: an API error, or a
\* response that is a mapping (read with .get) or an object with
\* attributes only (the ChatCompletion of the openai client), with or
\* without the expected fields
Completions ==
    << [error |-> "APIError", shape |-> "none", choices |-> None],
       [error |-> "", shape |-> "mapping", choices |-> None],
       [error |-> "", shape |-> "mapping", choices |-> Some(<< >>)],
       [error |-> "", shape |-> "mapping",
        choices |-> Some(<< [message |-> None] >>)],
       [error |-> "", shape |-> "mapping",
        choices |-> Some(<< Choice(None) >>)],
       [error |-> "", shape |-> "mapping",
        choices |-> Some(<< Choice(Some(TextSum)) >>)],
       [error |-> "", shape |-> "mapping",
        choices |-> Some(<< Choice(Some(TextSM)), Choice(Some(TextSum)) >>)],
       [error |-> "", shape |-> "object",
        choices |-> Some(<< Choice(Some(TextSum)) >>)] >>

\* the message content of the first choice, None when the response has none
content_of(response) ==
    IF response.choices = None THEN None
    ELSE IF Len(response.choices[1]) = 0 THEN None
    ELSE IF response.choices[1][1].message = None THEN None
    ELSE response.choices[1][1].message[1].content

\* summarize_results, line 234:
\* response.get("choices")[0].get("message").get("content").strip()
\* as the exception raised ("" when none is) and the text returned
read_completion(response) ==
    IF response.shape # "mapping"
    THEN [raise |-> "AttributeError", text |-> << >>]
    ELSE IF response.choices = None
    THEN [raise |-> "TypeError", text |-> << >>]
    ELSE IF Len(response.choices[1]) = 0
    THEN [raise |-> "IndexError", text |-> << >>]
    ELSE IF response.choices[1][1].message = None
    THEN [raise |-> "AttributeError", text |-> << >>]
    ELSE IF response.choices[1][1].message[1].content = None
    THEN [raise |-> "AttributeError", text |-> << >>]
    ELSE [raise |-> "",
          text |-> strip(response.choices[1][1].message[1].content[1])]

Idle ==
    /\ top_holders = << >>
    /\ token = None
    /\ analysis = << >>
    /\ holder_idx = 0
    /\ transactions = << >>
    /\ page = 0
    /\ holder_details = None
    /\ other_data = << >>
    /\ tokens = << >>
    /\ results = None
    /\ requests = << >>
    /\ returned = None
    /\ raised = ""

Init ==
    /\ TOP_N \in TopNInputs
    /\ \E i \in 1..Len(TokenAddressInputs) :
           request = [tokenAddress |-> TokenAddressInputs[i]]
    /\ \E i \in 1..Len(StoreInputs) : store = StoreInputs[i]
    /\ store0 = store
    /\ pc = "main"
    /\ Idle

-----------------------------------------------------------------------------
(* Steps of main.                                                          *)

\* an exception leaves main: nothing else of the run's state is touched
Raise(err) ==
    /\ pc' = "raised"
    /\ raised' = err

\* one entry of the request log: the request and whether its response was
\* a success (response.ok: not a status of 400..599; for the completion,
\* no API error)
Get(endpoint, params, status) ==
    [endpoint |-> endpoint, params |-> params,
     ok |-> ~(status >= 400 /\ status < 600)]

\* main, line 249: store[key] = value
store_write(st, key, value) == (key :> value) @@ st

\* main, lines 238-246: validation, then the cache lookup
Main ==
    /\ pc = "main"
    /\ UNCHANGED <<TOP_N, request, store, store0, top_holders, token,
                   analysis, holder_idx, transactions, page, holder_details,
                   other_data, tokens, results, requests>>
    /\ IF validate_top_n(TOP_N) # ""
       THEN Raise(validate_top_n(TOP_N)) /\ UNCHANGED returned
       ELSE IF validate_token_address(request.tokenAddress) # ""
       THEN Raise(validate_token_address(request.tokenAddress))
            /\ UNCHANGED returned
       ELSE IF cache_key(request.tokenAddress) \in DOMAIN store
       THEN /\ returned' = Some(store[cache_key(request.tokenAddress)])
            /\ pc' = "returned"
            /\ UNCHANGED raised
       ELSE /\ pc' = "get_top_holders"
            /\ UNCHANGED <<returned, raised>>

\* a loop that leaves out the last item of top_holders
LoopTo_skip_last(k, tok, an) ==
    IF k < Len(top_holders)
    THEN /\ holder_idx' = k
         /\ transactions' = << >>
         /\ page' = 1
         /\ pc' = "get_transactions"
         /\ UNCHANGED results
    ELSE /\ \E date \in Dates :
                results' = Some([token |-> tok, analysis |-> an, date |-> date])
         /\ pc' = "summarize_results"
         /\ UNCHANGED <<holder_idx, transactions, page>>

\* analyze, lines 182 and 197-201: the for loop moves to item k of
\* top_holders, or ends and analyze returns to main (line 247)
LoopTo(k, tok, an) ==
    IF k <= Len(top_holders)
    THEN /\ holder_idx' = k
         /\ transactions' = << >>
         /\ page' = 1
         /\ pc' = "get_transactions"
         /\ UNCHANGED results
    ELSE /\ \E date \in Dates :
                results' = Some([token |-> tok, analysis |-> an, date |-> date])
         /\ pc' = "summarize_results"
         /\ UNCHANGED <<holder_idx, transactions, page>>

\* get_top_holders, lines 59-65
GetTopHolders ==
    /\ pc = "get_top_holders"
    /\ \E status \in Statuses, n \in 0..MaxHolders :
        /\ requests' = Append(requests,
               Get("/token/holders",
                   [address |-> request.tokenAddress.str, page_size |-> TOP_N],
                   status))
        /\ IF raise_for_status(status) # ""
           THEN Raise(raise_for_status(status)) /\ UNCHANGED top_holders
           ELSE /\ top_holders' = [i \in 1..n |-> HolderItem(i)]
                /\ pc' = "get_token_details"
                /\ UNCHANGED raised
    /\ UNCHANGED <<TOP_N, request, store, store0, token, analysis, holder_idx,
                   transactions, page, holder_details, other_data, tokens,
                   results, returned>>

\* get_token_details(self.token_address), lines 138-154 and 179-182
GetTokenDetails ==
    /\ pc = "get_token_details"
    /\ \E status \in Statuses :
        /\ requests' = Append(requests,
               Get("/token/meta", [address |-> request.tokenAddress.str],
                   status))
        /\ IF raise_for_status(status) # ""
           THEN /\ Raise(raise_for_status(status))
                /\ UNCHANGED <<token, analysis, holder_idx, transactions,
                               page, results>>
           ELSE LET tok ==
                        token_details(TokenMeta(request.tokenAddress.str))
                IN  /\ token' = Some(tok)
                    /\ analysis' = << >>
                    /\ LoopTo(1, tok, << >>)
                    /\ UNCHANGED raised
    /\ UNCHANGED <<TOP_N, request, store, store0, top_holders,
                   holder_details, other_data, tokens, returned>>

\* get_transactions, one turn of the while loop (lines 89-112), and on
\* leaving it analyze_holder (line 185)
GetTransactionsPage ==
    /\ pc = "get_transactions"
    /\ LET wallet_address == top_holders[holder_idx].address
       IN \E status \in Statuses :
        /\ requests' = Append(requests,
               Get("/account/balance_change",
                   [address |-> wallet_address,
                    token |-> request.tokenAddress.str,
                    sort_by |-> "block_time", sort_order |-> "desc",
                    remove_spam |-> "true",
                    page_size |-> PageSize, page |-> page],
                   status))
        /\ IF raise_for_status(status) # ""
           THEN /\ Raise(raise_for_status(status))
                /\ UNCHANGED <<transactions, page, holder_details>>
           ELSE LET data == BalancePage(WalletOf(wallet_address), page)
                    txs == transactions \o new_transactions(data)
                IN  /\ transactions' = txs
                    /\ IF page_loop_breaks(data, txs)
                       THEN /\ holder_details' = Some(analyze_holder(txs))
                            /\ pc' = "get_other_tokens"
                            /\ UNCHANGED page
                       ELSE /\ page' = page + 1
                            /\ UNCHANGED <<pc, holder_details>>
                    /\ UNCHANGED raised
    /\ UNCHANGED <<TOP_N, request, store, store0, top_holders, token,
                   analysis, holder_idx, other_data, tokens, results,
                   returned>>

\* get_other_tokens, the listing (lines 156-165)
GetOtherTokens ==
    /\ pc = "get_other_tokens"
    /\ LET wallet_address == top_holders[holder_idx].address
       IN \E status \in Statuses :
        /\ requests' = Append(requests,
               Get("/account/token-accounts",
                   [address |-> wallet_address, type |-> "token",
                    page_size |-> 40, hide_zero |-> TRUE],
                   status))
        /\ IF raise_for_status(status) # ""
           THEN /\ Raise(raise_for_status(status))
                /\ UNCHANGED <<other_data, tokens>>
           ELSE LET data == TokenAccounts(WalletOf(wallet_address))
                IN  /\ other_data' = data
                    /\ tokens' = << >>
                    /\ pc' = IF Len(data) = 0
                             THEN "get_first_activity_date"
                             ELSE "get_other_token_details"
                    /\ UNCHANGED raised
    /\ UNCHANGED <<TOP_N, request, store, store0, top_holders, token,
                   analysis, holder_idx, transactions, page, holder_details,
                   results, returned>>

\* get_other_tokens, one turn of the for loop (lines 166-173)
GetOtherTokenDetails ==
    /\ pc = "get_other_token_details"
    /\ LET item == other_data[Len(tokens) + 1]
       IN \E status \in Statuses :
        /\ requests' = Append(requests,
               Get("/token/meta", [address |-> item.token_address], status))
        /\ IF raise_for_status(status) # ""
           THEN Raise(raise_for_status(status)) /\ UNCHANGED tokens
           ELSE /\ tokens' = Append(tokens,
                       other_token(item,
                           token_details(TokenMeta(item.token_address))))
                /\ pc' = IF Len(tokens) + 1 = Len(other_data)
                         THEN "get_first_activity_date"
                         ELSE "get_other_token_details"
                /\ UNCHANGED raised
    /\ UNCHANGED <<TOP_N, request, store, store0, top_holders, token,
                   analysis, holder_idx, transactions, page, holder_details,
                   other_data, results, returned>>

\* get_first_activity_date (lines 67-74), the append of the Holder
\* (lines 187-195) and the next turn of analyze's loop
GetFirstActivityDate ==
    /\ pc = "get_first_activity_date"
    /\ LET holder == top_holders[holder_idx]
       IN \E status \in Statuses :
        /\ requests' = Append(requests,
               Get("/account/balance_change",
                   [address |-> holder.address,
                    token |-> request.tokenAddress.str,
                    sort_by |-> "block_time", sort_order |-> "asc",
                    remove_spam |-> "true"],
                   status))
        /\ IF raise_for_status(status) # ""
           THEN /\ Raise(raise_for_status(status))
                /\ UNCHANGED <<analysis, holder_idx, transactions, page,
                               results>>
           ELSE LET first == first_activity_date(
                                 OldestFirst(WalletOf(holder.address)))
                    an == Append(analysis,
                              holder_entry(holder, transactions,
                                  holder_details[1], tokens, first))
                IN  /\ analysis' = an
                    /\ LoopTo(holder_idx + 1, token[1], an)
                    /\ UNCHANGED raised
    /\ UNCHANGED <<TOP_N, request, store, store0, top_holders, token,
                   holder_details, other_data, tokens, returned>>

\* summarize_results (lines 204-234) and the write to the store
\* (lines 249-250)
SummarizeResults ==
    /\ pc = "summarize_results"
    /\ \E c \in 1..Len(Completions) :
        LET completion == Completions[c]
        IN  /\ requests' = Append(requests,
                   [endpoint |-> "chat.completions",
                    params |-> summary_input(results[1]),
                    ok |-> completion.error = "",
                    content |-> content_of(completion)])
            /\ IF completion.error # ""
               THEN Raise(completion.error) /\ UNCHANGED <<store, returned>>
               ELSE IF read_completion(completion).raise # ""
               THEN /\ Raise(read_completion(completion).raise)
                    /\ UNCHANGED <<store, returned>>
               ELSE LET key == cache_key(request.tokenAddress)
                        summary == read_completion(completion).text
                    IN  /\ store' = store_write(store, key, summary)
                        /\ returned' =
                               Some(store_write(store, key, summary)[key])
                        /\ pc' = "returned"
                        /\ UNCHANGED raised
    /\ UNCHANGED <<TOP_N, request, store0, top_holders, token, analysis,
                   holder_idx, transactions, page, holder_details,
                   other_data, tokens, results>>

Next ==
    \/ Main
    \/ GetTopHolders
    \/ GetTokenDetails
    \/ GetTransactionsPage
    \/ GetOtherTokens
    \/ GetOtherTokenDetails
    \/ GetFirstActivityDate
    \/ SummarizeResults

Spec == Init /\ [][Next]_vars

-----------------------------------------------------------------------------
(* analyze_holder on its own: every list of up to MaxClassifyTx            *)
(* transactions with a given number of "inc" records, in two layouts.      *)

TxOf(j, change_type) ==
    [trans_id |-> <<0, 1, j>>, fee |-> 5, amount |-> 10 * j, time |-> j,
     change_type |-> change_type]

\* n transactions of which k are "inc": the "inc" ones first or last
TxList(n, k, inc_first) ==
    [j \in 1..n |->
        TxOf(j, IF inc_first
                THEN (IF j <= k THEN "inc" ELSE "dec")
                ELSE (IF j > n - k THEN "inc" ELSE "dec"))]

InitClassify ==
    /\ TOP_N = 10
    /\ request = [tokenAddress |-> PyStr(A44)]
    /\ store = << >>
    /\ store0 = store
    /\ pc = "analyze_holder"
    /\ top_holders = << >>
    /\ token = None
    /\ analysis = << >>
    /\ holder_idx = 0
    /\ \E n \in 0..MaxClassifyTx, k \in 0..MaxClassifyTx, inc_first \in BOOLEAN :
           /\ k <= n
           /\ transactions = TxList(n, k, inc_first)
    /\ page = 0
    /\ holder_details = None
    /\ other_data = << >>
    /\ tokens = << >>
    /\ results = None
    /\ requests = << >>
    /\ returned = None
    /\ raised = ""

\* analyze_holder(transactions), lines 119-136
AnalyzeHolder ==
    /\ pc = "analyze_holder"
    /\ holder_details' = Some(analyze_holder(transactions))
    /\ pc' = "analyzed"
    /\ UNCHANGED <<TOP_N, request, store, store0, top_holders, token,
                   analysis, holder_idx, transactions, page, other_data,
                   tokens, results, requests, returned, raised>>

NextClassify == AnalyzeHolder

SpecClassify == InitClassify /\ [][NextClassify]_vars

-----------------------------------------------------------------------------
(* Properties of main.                                                     *)

\* the request is one main accepts: TOP_N is allowed and tokenAddress is a
\* string of 44 characters
ValidRequest ==
    /\ TOP_N \in {10, 20, 30, 40}
    /\ DOMAIN request.tokenAddress = {"str"}
    /\ Len(request.tokenAddress.str) = 44

\* the key of the request was in the store when main was called
Cached ==
    /\ ValidRequest
    /\ ("analysis-" \o request.tokenAddress.str) \in DOMAIN store0

\* C1. Cache hit: when the request is valid and its key "analysis-" +
\* tokenAddress is in the store at the call, main returns exactly the
\* stored value, issues no upstream request and leaves the store as it was.
CacheHitReturnsStored ==
    (Cached /\ pc # "main") =>
        /\ pc = "returned"
        /\ raised = ""
        /\ returned = Some(store0["analysis-" \o request.tokenAddress.str])
        /\ requests = << >>
        /\ store = store0

CacheHitReached ==
    /\ Cached
    /\ pc = "returned"
    /\ request.tokenAddress = PyStr(A44)
    /\ returned = Some(CachedA)
    /\ DOMAIN store0 = {"analysis-" \o A44, "analysis-" \o B44}

\* C2. Failure atomicity: a request whose response is not a success is the
\* last request of the run; main has raised, has returned nothing and the
\* store is as it was at the call.
FailureAborts ==
    \A i \in 1..Len(requests) :
        ~requests[i].ok =>
            /\ i = Len(requests)
            /\ pc = "raised"
            /\ raised # ""
            /\ returned = None
            /\ store = store0

\* a failure at the third holder's first-activity lookup, after the work
\* for the first two holders was done
FailureAtLaterHolder ==
    /\ pc = "raised"
    /\ Len(analysis) = 2
    /\ holder_idx = 3
    /\ Len(requests) > 0
    /\ ~requests[Len(requests)].ok
    /\ requests[Len(requests)].endpoint = "/account/balance_change"
    /\ requests[Len(requests)].params.sort_order = "asc"

\* C3. Validation gate: main gets past validation exactly when the request
\* is valid; otherwise it raises ValueError with no upstream request
\* issued, nothing returned (not even a cached value) and the store as it
\* was.
ValidationGate ==
    pc # "main" =>
        /\ ValidRequest => raised # "ValueError"
        /\ ~ValidRequest =>
              /\ pc = "raised"
              /\ raised = "ValueError"
              /\ requests = << >>
              /\ returned = None
              /\ store = store0

\* an address of 45 characters is refused although the store holds a
\* value for it
ValidationRefused ==
    /\ pc = "raised"
    /\ raised = "ValueError"
    /\ TOP_N = 10
    /\ request.tokenAddress = PyStr(A45)
    /\ ("analysis-" \o A45) \in DOMAIN store0

-----------------------------------------------------------------------------
(* Properties of get_transactions and analyze.                             *)

\* the page requests of get_transactions for item h of top_holders
IsPageRequest(r, h) ==
    /\ r.endpoint = "/account/balance_change"
    /\ r.params.sort_order = "desc"
    /\ r.params.address = top_holders[h].address
PageRequests(h) ==
    LET Test(r) == IsPageRequest(r, h) IN SelectSeq(requests, Test)

\* what upstream returns for page i of the holder ranked h
UpstreamPage(h, i) == BalancePage(h, i)

RECURSIVE Accumulated(_, _)
Accumulated(h, i) ==
    IF i = 0 THEN 0 ELSE Accumulated(h, i - 1) + Len(UpstreamPage(h, i))

\* the records of pages 1..i, each cut down to the five retained fields
RECURSIVE Projected(_, _)
Projected(h, i) ==
    IF i = 0 THEN << >>
    ELSE Projected(h, i - 1) \o
         [j \in 1..Len(UpstreamPage(h, i)) |->
            [f \in {"trans_id", "fee", "amount", "time", "change_type"} |->
                UpstreamPage(h, i)[j][f]]]

\* page i is short, or with it 100 records or more are accumulated
StopsAt(h, i) == Len(UpstreamPage(h, i)) < 40 \/ Accumulated(h, i) >= 100

\* get_transactions has returned for item h
Fetched(h) ==
    \/ h <= Len(analysis)
    \/ /\ h = holder_idx
       /\ pc \in {"get_other_tokens", "get_other_token_details",
                  "get_first_activity_date"}

RetainedFor(h) ==
    IF h <= Len(analysis) THEN analysis[h].transactions ELSE transactions

\* C4. Pagination stop rule: pages are requested 1, 2, 3, ... in order
\* with page size 40, their projected records are appended in arrival
\* order, no page before the last requested one is short or brings the
\* accumulated count to 100, and the loop is left exactly at such a page.
PaginationStopRule ==
    \A h \in 1..Len(top_holders) :
        LET reqs == PageRequests(h)
            k == Len(reqs)
        IN  /\ \A i \in 1..k :
                  /\ reqs[i].params.page = i
                  /\ reqs[i].params.page_size = 40
            /\ \A i \in 1..(k - 1) : reqs[i].ok /\ ~StopsAt(h, i)
            /\ (h = holder_idx /\ pc = "get_transactions") =>
                  /\ page = k + 1
                  /\ transactions = Projected(h, k)
                  /\ k >= 1 => ~StopsAt(h, k)
            /\ Fetched(h) =>
                  /\ k >= 1
                  /\ reqs[k].ok
                  /\ StopsAt(h, k)
                  /\ RetainedFor(h) = Projected(h, k)

\* a holder whose paging stopped on the cap with a full last page (60 then
\* 40 records), and one whose paging stopped on a short second page
PaginationStopsReached ==
    /\ Len(analysis) >= 8
    /\ Len(PageRequests(7)) = 2
    /\ Len(UpstreamPage(7, 2)) = 40
    /\ Len(analysis[7].transactions) = 100
    /\ Len(PageRequests(8)) = 2
    /\ Len(analysis[8].transactions) = 79

\* C5. Transaction cap: the transaction list retained for a holder has at
\* most 100 entries.
TransactionsCapped ==
    /\ Len(transactions) <= 100
    /\ \A h \in 1..Len(analysis) : Len(analysis[h].transactions) <= 100

\* upstream holds pages of 40, 40, 40 and 15 records for the holder ranked h
FourPageScenario(h) ==
    /\ Len(UpstreamPage(h, 1)) = 40
    /\ Len(UpstreamPage(h, 2)) = 40
    /\ Len(UpstreamPage(h, 3)) = 40
    /\ Len(UpstreamPage(h, 4)) = 15

\* C6 as stated. With pages of 40, 40, 40 and 15 records get_transactions
\* issues exactly 4 page requests and yields 135 items (or 100).
FourPagesRequested ==
    \A h \in 1..Len(analysis) :
        FourPageScenario(h) =>
            /\ Len(PageRequests(h)) = 4
            /\ Len(analysis[h].transactions) \in {135, 100}

\* C6 as amended. With pages of 40, 40, 40 and 15 records get_transactions
\* issues exactly 3 page requests, for pages 1, 2 and 3, and yields the
\* 120 items of these pages; page 4 is never requested.
ThreePagesRequested ==
    \A h \in 1..Len(analysis) :
        FourPageScenario(h) =>
            /\ Len(PageRequests(h)) = 3
            /\ \A i \in 1..3 : PageRequests(h)[i].params.page = i
            /\ Len(analysis[h].transactions) = 120
            /\ analysis[h].transactions = Projected(h, 3)

FourPageScenarioReached ==
    \E h \in 1..Len(analysis) :
        FourPageScenario(h) /\ Len(analysis[h].transactions) = 120

\* C7 as stated. A successful analyze run yields exactly top_n Holder
\* entries, in upstream rank order.
ExactlyTopNHolders ==
    results # None =>
        /\ Len(results[1].analysis) = TOP_N
        /\ \A i \in 1..Len(results[1].analysis) :
              results[1].analysis[i].rank = i

\* C7 as amended. A successful analyze run yields exactly one Holder entry
\* per item of the upstream holder listing (top_n entries when the listing
\* has top_n items), in upstream order: entry i carries the rank and the
\* address of item i.
OneHolderPerListedItem ==
    results # None =>
        /\ Len(results[1].analysis) = Len(top_holders)
        /\ \A i \in 1..Len(results[1].analysis) :
              /\ results[1].analysis[i].rank = i
              /\ results[1].analysis[i].wallet_address = 1000 + i
        /\ requests[1].endpoint = "/token/holders"
        /\ requests[1].params.page_size = TOP_N

TopNHoldersReached ==
    /\ results # None
    /\ TOP_N = 10
    /\ Len(results[1].analysis) = 10
    /\ results[1].analysis[10].rank = 10

-----------------------------------------------------------------------------
(* Properties of analyze_holder, under SpecClassify.                       *)

IsInc(tx) == tx.change_type = "inc"
Total == Len(transactions)
Inbound == Len(SelectSeq(transactions, IsInc))
Outbound == Total - Inbound

\* C8. Holder classification: the label is "Long-term holder" exactly when
\* total = 0 or 10 * outbound < total, and "Frequent flipper" otherwise.
ClassificationRule ==
    pc = "analyzed" =>
        holder_details[1].type_of_holder =
            IF Total = 0 \/ 10 * Outbound < Total
            THEN "Long-term holder"
            ELSE "Frequent flipper"

\* 10 transactions of which 1 is outbound: the ratio is 0.1
BoundaryClassified ==
    /\ pc = "analyzed"
    /\ Total = 10
    /\ Outbound = 1
    /\ holder_details[1].type_of_holder = "Frequent flipper"

\* a count as holder_details reports it
Shown(count) ==
    IF count <= 99 THEN [int |-> count] ELSE [str |-> "more than 100"]

\* C9. Count formatting: each of the three counts is reported as the
\* integer itself up to 99 and as "more than 100" from 100 on.
CountsFormatted ==
    pc = "analyzed" =>
        /\ holder_details[1].number_of_transactions = Shown(Total)
        /\ holder_details[1].number_of_in_transactions = Shown(Inbound)
        /\ holder_details[1].number_of_out_transactions = Shown(Outbound)

\* 100 transactions of which 99 are inbound
CountBoundaryFormatted ==
    /\ pc = "analyzed"
    /\ Total = 100
    /\ Inbound = 99
    /\ holder_details[1].number_of_transactions = [str |-> "more than 100"]
    /\ holder_details[1].number_of_in_transactions = [int |-> 99]

-----------------------------------------------------------------------------
(* The cache miss.                                                         *)

Key == "analysis-" \o request.tokenAddress.str
Missed == ValidRequest /\ Key \notin DOMAIN store0

Last(seq) == seq[Len(seq)]

\* C10. Cache miss: when the request is valid, its key is absent and every
\* upstream request succeeds (the completion carrying a text), main runs
\* the Analyzer to completion, then issues the single summarization
\* request, then writes the summary under exactly that key and returns the
\* same value; no other key is touched and the store is written only after
\* the summarization has succeeded.
CacheMissStoresSummary ==
    /\ (Missed /\ pc = "raised") =>
          \/ ~Last(requests).ok
          \/ /\ Last(requests).endpoint = "chat.completions"
             /\ Last(requests).content = None
    /\ (Missed /\ pc = "returned") =>
          /\ results # None
          /\ Len(results[1].analysis) = Len(top_holders)
          /\ \A i \in 1..Len(requests) :
                (requests[i].endpoint = "chat.completions")
                    <=> (i = Len(requests))
          /\ DOMAIN store = DOMAIN store0 \cup {Key}
          /\ \A k \in DOMAIN store0 : store[k] = store0[k]
          /\ returned = Some(store[Key])
          /\ store[Key] \in {<< 115, 117, 109 >>, << 115, 32, 109 >>}
    /\ store # store0 =>
          /\ pc = "returned"
          /\ Last(requests).endpoint = "chat.completions"
          /\ Last(requests).ok

====
